---- MODULE Spec2Model ----
(***************************************************************************)
(* Model of tools/cmyk2srgbjpeg.c: the command line driver that detects a  *)
(* CMYK image and converts it to an sRGB JPEG.  main() is a straight line  *)
(* of library calls; every call is one step of the model and the result of *)
(* a library call (success or failure) is chosen by the environment.       *)
(* Strings are sequences of one-character strings.                         *)
(***************************************************************************)
EXTENDS Integers, Sequences, FiniteSets, TLC

VARIABLES pc, quality, argc, argv, image, global, t, output_filename,
          trace, ret, outfile

vars == <<pc, quality, argc, argv, image, global, t, output_filename,
          trace, ret, outfile>>

(* ---------------- configuration (#defines) ---------------- *)

CMYK2SRGBJPEG_PROBABLY_NOT_CMYK == 0
CMYK2SRGBJPEG_FATAL_ERROR == 1
CMYK2SRGBJPEG_CMYK_WITH_UNUSABLE_ICC == 2
CMYK2SRGBJPEG_CMYK_NO_ICC == 3
CMYK2SRGBJPEG_CMYK_WITH_USABLE_ICC == 4

\* the quality as delivered; -DCMYK2SRGBJPEG_JPEG_QUALITY overrides it
CMYK2SRGBJPEG_JPEG_QUALITY == 99
\* "Set to an integer value between 0 and 100"
MaxQuality == 100
Qualities == {0, 9, 10, CMYK2SRGBJPEG_JPEG_QUALITY, MaxQuality}

CMYK2SRGBJPEG_JPEG_EXTENSION == <<"j", "p", "g">>

\* size of the output_filename buffer (the value of vips/util.h; the checks
\* below only use it through the length test and the buffer size)
VIPS_PATH_MAX == 4096
\* "CMYK (type 15)"
VIPS_INTERPRETATION_CMYK == 15
\* two interpretations other than CMYK: B_W (1) and sRGB (22)
Interpretations == {1, VIPS_INTERPRETATION_CMYK, 22}
\* the embedded ICC profile of the input image
IccStates == {"none", "unusable", "usable"}

\* exit status of vips_error_exit()
VipsErrorExitStatus == 1

(* ---------------- bounds of the model ---------------- *)

\* argc after option parsing ranges over 1..MaxArgc
MaxArgc == 4
\* the longest output base name is MaxOver characters over the accepted length
MaxOver == 1
\* the shortest long output base name is MaxUnder characters under it
MaxUnder == 1

(* ---------------- pure helpers ---------------- *)

NoStatus == -1
NoFile == <<>>

Min(a, b) == IF a < b THEN a ELSE b

Pad(n) == [i \in 1..n |-> "x"]

Digit(d) == <<"0", "1", "2", "3", "4", "5", "6", "7", "8", "9">>[d + 1]

\* the %d conversion of a non-negative int
RECURSIVE Itoa(_)
Itoa(n) == IF n < 10 THEN <<Digit(n)>>
           ELSE Append(Itoa(n \div 10), Digit(n % 10))

\* the string "%s.%s[Q=%d]" expands to, before any truncation
Format(base, ext, q) ==
    base \o <<".">> \o ext \o <<"[", "Q", "=">> \o Itoa(q) \o <<"]">>

\* vips_snprintf( str, size, ... ): at most size - 1 characters and a NUL
vips_snprintf(size, base, ext, q) ==
    LET full == Format(base, ext, q)
    IN  SubSeq(full, 1, Min(Len(full), size - 1))

\* strlen( argv[2] ) > VIPS_PATH_MAX - (strlen( EXTENSION ) + 8)
\* (size_t arithmetic; with the extension "jpg" the subtraction cannot wrap)
TooLongLoose(base) ==
    Len(base) > VIPS_PATH_MAX - (Len(CMYK2SRGBJPEG_JPEG_EXTENSION) + 7)
TooLong(base) ==
    Len(base) > VIPS_PATH_MAX - (Len(CMYK2SRGBJPEG_JPEG_EXTENSION) + 8)

\* vips_image_get_interpretation( t[0] ) == VIPS_INTERPRETATION_CMYK
IsCMYKLoose(interp) == interp # 22
IsCMYK(interp) == interp = VIPS_INTERPRETATION_CMYK

\* argc != 3
BadArgcLoose(n) == n < 3
BadArgc(n) == n # 3

(* ---------------- inputs ---------------- *)

AcceptedLen == VIPS_PATH_MAX - (Len(CMYK2SRGBJPEG_JPEG_EXTENSION) + 8)

ProgName == <<"c">>
Inputs == {<<"a", ".", "j", "p", "g">>, <<"i", ".", "t", "i", "f">>}
Bases == {<<"a">>, <<"o">>} \cup
         {Pad(n) : n \in (AcceptedLen - MaxUnder)..(AcceptedLen + MaxOver)}
Extra == <<"e">>

\* the argument vectors left by option parsing, argv[0] .. argv[argc - 1]
Argvs(n) ==
    IF n = 1 THEN {[i \in {0} |-> ProgName]}
    ELSE IF n = 2 THEN {[i \in 0..1 |-> IF i = 0 THEN ProgName ELSE in] :
                          in \in Inputs}
    ELSE {[i \in 0..(n - 1) |-> IF i = 0 THEN ProgName
                                ELSE IF i = 1 THEN in
                                ELSE IF i = 2 THEN base ELSE Extra] :
            in \in Inputs, base \in Bases}

NullArray == [i \in 0..4 |-> "NULL"]

\* an entry of the call log
Call(op, ok) == [op |-> op, ok |-> ok]

Init ==
    /\ pc = "vips_init"
    /\ quality \in Qualities
    /\ argc \in 1..MaxArgc
    /\ argv \in Argvs(argc)
    /\ image \in [interpretation : Interpretations, icc : IccStates]
    /\ global = "unset"
    /\ t = NullArray
    /\ output_filename = <<>>
    /\ trace = <<>>
    /\ ret = NoStatus
    /\ outfile = NoFile

(* ---------------- leaving main ---------------- *)

\* vips_error_exit(): the process ends in the library, before global exists
vips_error_exit(tr) ==
    /\ pc' = "done"
    /\ ret' = VipsErrorExitStatus
    /\ trace' = tr
    /\ UNCHANGED <<global, t>>

\* g_object_unref( global ); return code;   the local array t goes with global
ExitLeak(tr, tt, code) ==
    /\ pc' = "done"
    /\ ret' = code
    /\ trace' = tr
    /\ global' = global
    /\ t' = tt
Exit(tr, tt, code) ==
    /\ pc' = "done"
    /\ ret' = code
    /\ trace' = Append(tr, Call("unref", TRUE))
    /\ global' = "freed"
    /\ t' = [i \in 0..4 |-> IF tt[i] = "NULL" THEN "NULL" ELSE "freed"]

(* ---------------- the steps of main ---------------- *)

VipsInit ==
    /\ pc = "vips_init"
    /\ \E ok \in BOOLEAN :
         LET tr == Append(trace, Call("vips_init", ok))
         IN  IF ok
             THEN /\ pc' = "parse"
                  /\ trace' = tr
                  /\ UNCHANGED <<ret, global, t>>
             ELSE vips_error_exit(tr)
    /\ UNCHANGED <<quality, argc, argv, image, output_filename, outfile>>

ParseOptions ==
    /\ pc = "parse"
    /\ \E ok \in BOOLEAN :
         LET tr == Append(trace, Call("parse", ok))
         IN  IF ok
             THEN /\ pc' = "new"
                  /\ trace' = tr
                  /\ UNCHANGED <<ret, global, t>>
             ELSE vips_error_exit(tr)
    /\ UNCHANGED <<quality, argc, argv, image, output_filename, outfile>>

NewGlobal ==
    /\ pc = "new"
    /\ global' = "live"
    /\ t' = NullArray
    /\ pc' = "open"
    /\ trace' = Append(trace, Call("new", TRUE))
    /\ UNCHANGED <<quality, argc, argv, image, output_filename, ret, outfile>>

\* argc != 3 || !(t[0] = vips_image_new_mode( argv[1], "rs" ))
OpenInput ==
    /\ pc = "open"
    /\ IF BadArgc(argc)
       THEN Exit(trace, t, CMYK2SRGBJPEG_FATAL_ERROR)
       ELSE \E ok \in BOOLEAN :
              LET tr == Append(trace, Call("open", ok))
              IN  IF ok
                  THEN /\ t' = [t EXCEPT ![0] = "open"]
                       /\ pc' = "interpretation"
                       /\ trace' = tr
                       /\ UNCHANGED <<ret, global>>
                  ELSE Exit(tr, t, CMYK2SRGBJPEG_FATAL_ERROR)
    /\ UNCHANGED <<quality, argc, argv, image, output_filename, outfile>>

GetInterpretation ==
    /\ pc = "interpretation"
    /\ LET tr == Append(trace, Call("interpretation", TRUE))
       IN  IF IsCMYK(image.interpretation)
           THEN /\ pc' = "name"
                /\ trace' = tr
                /\ UNCHANGED <<ret, global, t>>
           ELSE Exit(tr, t, CMYK2SRGBJPEG_PROBABLY_NOT_CMYK)
    /\ UNCHANGED <<quality, argc, argv, image, output_filename, outfile>>

\* the length check and the assembly of the output filename
ComposeName ==
    /\ pc = "name"
    /\ IF TooLong(argv[2])
       THEN /\ Exit(Append(trace, Call("length", FALSE)), t,
                    CMYK2SRGBJPEG_FATAL_ERROR)
            /\ UNCHANGED output_filename
       ELSE /\ output_filename' =
                  vips_snprintf(VIPS_PATH_MAX, argv[2],
                                CMYK2SRGBJPEG_JPEG_EXTENSION, quality)
            /\ pc' = "transform"
            /\ trace' = Append(trace, Call("length", TRUE))
            /\ UNCHANGED <<ret, global, t>>
    /\ UNCHANGED <<quality, argc, argv, image, outfile>>

\* a transform whose failure is not looked at
IccTransformUnchecked ==
    /\ pc = "transform"
    /\ \E ok \in BOOLEAN :
         /\ t' = [t EXCEPT ![1] = IF ok THEN "open" ELSE "NULL"]
         /\ pc' = "write"
         /\ trace' = Append(trace, Call("transform", ok))
         /\ UNCHANGED <<ret, global>>
    /\ UNCHANGED <<quality, argc, argv, image, output_filename, outfile>>
IccTransform ==
    /\ pc = "transform"
    /\ \E ok \in BOOLEAN :
         LET tr == Append(trace, Call("transform", ok))
         IN  IF ok
             THEN /\ t' = [t EXCEPT ![1] = "open"]
                  /\ pc' = "write"
                  /\ trace' = tr
                  /\ UNCHANGED <<ret, global>>
             ELSE Exit(tr, t, CMYK2SRGBJPEG_FATAL_ERROR)
    /\ UNCHANGED <<quality, argc, argv, image, output_filename, outfile>>

\* a write that is tried a second time when it fails
WriteToFileRetry ==
    /\ pc = "write"
    /\ \E ok \in BOOLEAN :
         LET tr == Append(trace, Call("write", ok))
             again == \A i \in 1..Len(trace) : trace[i].op # "write"
         IN  IF ok
             THEN /\ outfile' = output_filename
                  /\ Exit(tr, t, CMYK2SRGBJPEG_CMYK_WITH_USABLE_ICC)
             ELSE IF again
             THEN /\ trace' = tr
                  /\ UNCHANGED <<pc, ret, global, t, outfile>>
             ELSE /\ outfile' = outfile
                  /\ Exit(tr, t, CMYK2SRGBJPEG_FATAL_ERROR)
    /\ UNCHANGED <<quality, argc, argv, image, output_filename>>
\* outfile is the name handed to a write that reported success; a write that
\* reports failure has committed no output
WriteToFile ==
    /\ pc = "write"
    /\ \E ok \in BOOLEAN :
         LET tr == Append(trace, Call("write", ok))
         IN  IF ok
             THEN /\ outfile' = output_filename
                  /\ Exit(tr, t, CMYK2SRGBJPEG_CMYK_WITH_USABLE_ICC)
             ELSE /\ outfile' = outfile
                  /\ Exit(tr, t, CMYK2SRGBJPEG_FATAL_ERROR)
    /\ UNCHANGED <<quality, argc, argv, image, output_filename>>

Next ==
    \/ VipsInit
    \/ ParseOptions
    \/ NewGlobal
    \/ OpenInput
    \/ GetInterpretation
    \/ ComposeName
    \/ IccTransform
    \/ WriteToFile

Spec == Init /\ [][Next]_vars

\* every library call returns: main runs to its end
FairSpec == Spec /\ WF_vars(Next)

(* ---------------- reading the call log ---------------- *)

Calls(op) == {i \in 1..Len(trace) : trace[i].op = op}
Count(op) == Cardinality(Calls(op))
Succeeded(op) == \E i \in Calls(op) : trace[i].ok
Failed(op) == \E i \in Calls(op) : ~trace[i].ok

\* the four steps made on the input image, in the order of main
Steps == <<"open", "interpretation", "transform", "write">>
Rank(op) == CHOOSE k \in 1..Len(Steps) : Steps[k] = op
IsStep(i) == \E k \in 1..Len(Steps) : Steps[k] = trace[i].op

\* the name the output resolves to on disk: <base>.<extension>
ResolvedName(base) == base \o <<".">> \o CMYK2SRGBJPEG_JPEG_EXTENSION

(* ---------------- claims ---------------- *)

\* C1: an output file is written if and only if the input was opened, it is
\* CMYK, the length check passed, the transform succeeded and the write
\* succeeded; with a wrong argument count, an open failure, a non-CMYK
\* input, an over-long name or a transform failure the write step is never
\* invoked and no output file exists.
C1_OutputIffAllSucceed ==
    /\ (outfile # NoFile) <=>
          /\ Succeeded("open")
          /\ image.interpretation = VIPS_INTERPRETATION_CMYK
          /\ Succeeded("length")
          /\ Succeeded("transform")
          /\ Succeeded("write")
    /\ (\/ argc # 3
        \/ Failed("open")
        \/ image.interpretation # VIPS_INTERPRETATION_CMYK
        \/ Failed("length")
        \/ Failed("transform"))
       => (Count("write") = 0 /\ outfile = NoFile)
C1_Witness ==
    /\ pc = "done"
    /\ outfile # NoFile
    /\ Succeeded("write")
    /\ image.interpretation = VIPS_INTERPRETATION_CMYK

\* C2: an input that opens with exactly two positional arguments and is not
\* CMYK makes main return CMYK2SRGBJPEG_PROBABLY_NOT_CMYK with neither the
\* transform nor the write performed, whatever the output base name.
C2_NotCmykDoesNothing ==
    (Succeeded("open") /\ image.interpretation # VIPS_INTERPRETATION_CMYK)
       => /\ argc = 3
          /\ Count("transform") = 0
          /\ Count("write") = 0
          /\ outfile = NoFile
          /\ (pc = "done" => ret = CMYK2SRGBJPEG_PROBABLY_NOT_CMYK)
C2_Witness ==
    /\ pc = "done"
    /\ Succeeded("open")
    /\ image.interpretation # VIPS_INTERPRETATION_CMYK
    /\ Len(argv[2]) > AcceptedLen
    /\ ret = CMYK2SRGBJPEG_PROBABLY_NOT_CMYK

\* C3: a CMYK input without an embedded profile whose conversion and write
\* succeed makes main return CMYK2SRGBJPEG_CMYK_NO_ICC, one with an unusable
\* embedded profile makes it return CMYK2SRGBJPEG_CMYK_WITH_UNUSABLE_ICC, and
\* neither returns CMYK2SRGBJPEG_CMYK_WITH_USABLE_ICC.
C3_FallbackStatus ==
    (/\ pc = "done"
     /\ image.interpretation = VIPS_INTERPRETATION_CMYK
     /\ Succeeded("transform")
     /\ Succeeded("write"))
       => /\ image.icc = "none" => ret = CMYK2SRGBJPEG_CMYK_NO_ICC
          /\ image.icc = "unusable" =>
                ret = CMYK2SRGBJPEG_CMYK_WITH_UNUSABLE_ICC
          /\ image.icc # "usable" =>
                ret # CMYK2SRGBJPEG_CMYK_WITH_USABLE_ICC

\* C4: a CMYK input with a usable embedded profile, when the length check,
\* the transform and the write succeed, makes main return
\* CMYK2SRGBJPEG_CMYK_WITH_USABLE_ICC with exactly one write, issued to
\* <base>.<extension>[Q=<quality>].
C4_UsableIccWritesComposedName ==
    (/\ pc = "done"
     /\ image.interpretation = VIPS_INTERPRETATION_CMYK
     /\ image.icc = "usable"
     /\ Succeeded("length")
     /\ Succeeded("transform")
     /\ Succeeded("write"))
       => /\ ret = CMYK2SRGBJPEG_CMYK_WITH_USABLE_ICC
          /\ Count("write") = 1
          /\ outfile = Format(argv[2], CMYK2SRGBJPEG_JPEG_EXTENSION, quality)

\* C5: when the name the output resolves to, <base>.<extension>, equals the
\* input image path, the write step is not performed.
C5_NeverWritesOverInput ==
    (argc = 3 /\ ResolvedName(argv[2]) = argv[1]) => Count("write") = 0

C7_BadArgsOrOpenFailureIsFatal ==
    /\ (argc # 3 \/ Failed("open"))
       => /\ Count("interpretation") = 0
          /\ Count("transform") = 0
          /\ Count("write") = 0
          /\ outfile = NoFile
          /\ (pc = "done" => ret = CMYK2SRGBJPEG_FATAL_ERROR)
    /\ argc # 3 => Count("open") = 0
C7_Witness ==
    /\ pc = "done"
    /\ argc = MaxArgc
    /\ global = "freed"
    /\ ret = CMYK2SRGBJPEG_FATAL_ERROR

\* C8: once global has been created, every return from main is preceded by
\* exactly one release of it, and no image handle it owns is used after the
\* release.
C8_ReleasedOnEveryExit ==
    /\ Count("unref") <= 1
    /\ (pc = "done" /\ Count("new") = 1)
       => /\ Count("unref") = 1
          /\ trace[Len(trace)].op = "unref"
          /\ global = "freed"
          /\ \A i \in 0..4 : t[i] # "open"
    /\ \A i \in Calls("unref") :
          \A j \in 1..Len(trace) : j > i => trace[j].op = "unref"
    /\ global = "freed" => pc = "done"
C8_Witness ==
    /\ pc = "done"
    /\ Failed("write")
    /\ global = "freed"
    /\ t[1] = "freed"

\* C9: whenever the length check accepts the output base name, the composed
\* string <base>.<extension>[Q=<quality>] and its NUL fit in the
\* VIPS_PATH_MAX bytes of output_filename without truncation, for every
\* quality from 0 to 100 and every accepted length.
C9_AcceptedNameFits ==
    Succeeded("length")
       => /\ Len(Format(argv[2], CMYK2SRGBJPEG_JPEG_EXTENSION, quality)) + 1
                <= VIPS_PATH_MAX
          /\ output_filename =
                Format(argv[2], CMYK2SRGBJPEG_JPEG_EXTENSION, quality)

\* C10: the steps occur in the order open, interpretation query, transform,
\* write, each at most once; the first failing step ends the run with
\* CMYK2SRGBJPEG_FATAL_ERROR and no later step; every run terminates with
\* exactly one status from 0 to 4.
C10_StateInv ==
    /\ \A i, j \in 1..Len(trace) :
          (i < j /\ IsStep(i) /\ IsStep(j))
             => /\ Rank(trace[i].op) < Rank(trace[j].op)
                /\ trace[i].ok
    /\ \A i \in 1..Len(trace) :
          (IsStep(i) /\ ~trace[i].ok)
             => pc = "done" /\ ret = CMYK2SRGBJPEG_FATAL_ERROR
    /\ Failed("transform") => Count("write") = 0
    /\ pc = "done" <=> ret # NoStatus
    /\ ret # NoStatus => ret \in 0..4
C10_OrderedNoRetryTerminates ==
    /\ []C10_StateInv
    /\ [][ret # NoStatus => ret' = ret]_vars
    /\ <>(pc = "done")
C10_Witness ==
    /\ pc = "done"
    /\ Failed("transform")
    /\ Count("open") = 1
    /\ Count("interpretation") = 1
    /\ ret = CMYK2SRGBJPEG_FATAL_ERROR

====
